---- MODULE Spec2Model ----
(***************************************************************************)
(* Model of src/cross/meshgen/cross.py: the structured lattice builder     *)
(* (points, lines, transfinite curves, surfaces, physical groups) and the  *)
(* boundary-layer grading solver generate_data.                            *)
(*                                                                         *)
(* Python floats are modelled as exact rationals <<num, den>> in lowest    *)
(* terms with den > 0; np.sqrt is rounded down to SqrtScale^-1.            *)
(* Python lists are sequences (1-based here, 0-based in the source), and   *)
(* Python dicts are sequences of <<key, value>> pairs in insertion order.  *)
(* The gmsh kernel is the variables gmsh_*: it hands out tags 1, 2, 3 ...  *)
(* per entity kind, in call order.                                         *)
(*                                                                         *)
(* A dict lookup of a missing key raises KeyError and ends the run: the    *)
(* pass moves pc to "KeyError" (what the pass had created before the       *)
(* failing lookup is not kept).  mesh_and_save only drives the kernel's    *)
(* mesher and writes the file; the pipeline ends at pc = "done" before it. *)
(***************************************************************************)
EXTENDS Integers, Sequences, FiniteSets

VARIABLES
    pc,              \* position in the __main__ pipeline
    laminar, Re, nelq, yplus,          \* arguments of generate_data
    growth_rate, num_y_prog,           \* tunable locals of generate_data
    y0, dyprog, dy1, dycst, num_y_cst, \* derived locals of generate_data
    coord_x, coord_y,                  \* the two coordinate axes
    disc_x, disc_y, prog_x, prog_y,    \* per-lane tables
    exclude,                           \* set of excluded (i, j)
    point_tags, point_map, line_map, surfaces,
    gmsh_points, gmsh_lines, gmsh_transfinite, gmsh_loops, gmsh_surfaces,
    gmsh_physical

vars == <<pc, laminar, Re, nelq, yplus, growth_rate, num_y_prog,
          y0, dyprog, dy1, dycst, num_y_cst,
          coord_x, coord_y, disc_x, disc_y, prog_x, prog_y, exclude,
          point_tags, point_map, line_map, surfaces,
          gmsh_points, gmsh_lines, gmsh_transfinite, gmsh_loops,
          gmsh_surfaces, gmsh_physical>>

dataVars == <<laminar, Re, nelq, yplus, growth_rate, num_y_prog,
              y0, dyprog, dy1, dycst, num_y_cst>>

inputVars == <<coord_x, coord_y, disc_x, disc_y, prog_x, prog_y, exclude>>

----------------------------------------------------------------------------
(* Module-level constants of cross.py and defaults of generate_data *)

ZVAL == 0
LAMINAR == TRUE
RE == 1000
NELQ == 7
YPLUS == <<1, 1>>

----------------------------------------------------------------------------
(* Bounds of the model *)

MaxN == 3            \* longest axis of the freely chosen lattices
MaxCells == 12       \* most lattice indices of the freely chosen lattices
MaxExcl == 1         \* most excluded indices when the lane tables vary
MaxLayers == 5       \* most graded layers when the grading loop is swept
SqrtScale == 100     \* np.sqrt is rounded down to a multiple of 1/SqrtScale

----------------------------------------------------------------------------
(* Exact rational arithmetic standing for Python float arithmetic *)

Abs(a) == IF a < 0 THEN -a ELSE a

RECURSIVE GCD(_, _)
GCD(a, b) == IF b = 0 THEN a ELSE GCD(b, a % b)

Rat(n, d) ==
    LET g == GCD(Abs(n), Abs(d))
        s == IF d < 0 THEN -1 ELSE 1
    IN  <<(s * n) \div g, (s * d) \div g>>

R(n) == <<n, 1>>

RAdd(a, b) ==
    LET g == GCD(a[2], b[2])
    IN  Rat(a[1] * (b[2] \div g) + b[1] * (a[2] \div g), a[2] * (b[2] \div g))

RNeg(a) == <<-a[1], a[2]>>

RSub(a, b) == RAdd(a, RNeg(b))

RMul(a, b) ==
    LET g1 == GCD(Abs(a[1]), b[2])
        g2 == GCD(Abs(b[1]), a[2])
    IN  Rat((a[1] \div g1) * (b[1] \div g2), (a[2] \div g2) * (b[2] \div g1))

RDiv(a, b) == RMul(a, Rat(b[2], b[1]))

RLess(a, b) == a[1] * b[2] < b[1] * a[2]

RECURSIVE RPow(_, _)
RPow(a, k) == IF k = 0 THEN R(1) ELSE RMul(a, RPow(a, k - 1))

Ceil(a) == -((-a[1]) \div a[2])

----------------------------------------------------------------------------
(* Python containers *)

Range(s) == {s[k] : k \in DOMAIN s}

Keys(d) == {d[k][1] : k \in DOMAIN d}

Get(d, key) == d[CHOOSE k \in DOMAIN d : d[k][1] = key][2]

Values(d) == [k \in DOMAIN d |-> d[k][2]]

\* the pairs with the inner index running slowest
Loop2InnerFirst(n, m) == [k \in 1..(n * m) |-> <<(k - 1) % n, (k - 1) \div n>>]

\* for a in range(n): for b in range(m): the pairs (a, b) in loop order
Loop2(n, m) == [k \in 1..(n * m) |-> <<(k - 1) \div m, (k - 1) % m>>]

Nx == Len(coord_x)
Ny == Len(coord_y)

----------------------------------------------------------------------------
(* generate_points *)

\* the exclusion test with the indices swapped
PointKeysSwapped == SelectSeq(Loop2(Nx, Ny), LAMBDA p : <<p[2], p[1]>> \notin exclude)

\* the (i, j) visited by the double loop that are not skipped
PointKeys == SelectSeq(Loop2(Nx, Ny), LAMBDA p : p \notin exclude)

GeneratePoints ==
    /\ pc = "points"
    /\ LET keys == PointKeys
           base == Len(gmsh_points)
       IN  /\ gmsh_points' = gmsh_points \o
                  [k \in 1..Len(keys) |->
                      <<coord_x[keys[k][1] + 1], coord_y[keys[k][2] + 1], ZVAL>>]
           /\ point_tags' = [k \in 1..Len(keys) |-> base + k]
           /\ point_map' = [k \in 1..Len(keys) |-> <<keys[k], base + k>>]
    /\ pc' = "lines"
    /\ UNCHANGED <<dataVars, inputVars, line_map, surfaces, gmsh_lines,
                   gmsh_transfinite, gmsh_loops, gmsh_surfaces, gmsh_physical>>

----------------------------------------------------------------------------
(* generate_lines *)

\* edge keys (i1, j1, i2, j2) of the x-parallel loop that are not skipped
XLineKeys ==
    LET all == Loop2(Nx - 1, Ny)
        kept == SelectSeq(all, LAMBDA p :
                    ~(p \in exclude \/ <<p[1] + 1, p[2]>> \in exclude))
    IN  [k \in 1..Len(kept) |->
            <<kept[k][1], kept[k][2], kept[k][1] + 1, kept[k][2]>>]

\* the y-parallel loop run over every row, the last one included
YLineKeysAllRows ==
    LET all == Loop2(Nx, Ny)
        kept == SelectSeq(all, LAMBDA p :
                    ~(p \in exclude \/ <<p[1], p[2] + 1>> \in exclude))
    IN  [k \in 1..Len(kept) |->
            <<kept[k][1], kept[k][2], kept[k][1], kept[k][2] + 1>>]

\* edge keys of the y-parallel loop that are not skipped
YLineKeys ==
    LET all == Loop2(Nx, Ny - 1)
        kept == SelectSeq(all, LAMBDA p :
                    ~(p \in exclude \/ <<p[1], p[2] + 1>> \in exclude))
    IN  [k \in 1..Len(kept) |->
            <<kept[k][1], kept[k][2], kept[k][1], kept[k][2] + 1>>]

LineKeys == XLineKeys \o YLineKeys

GenerateLines ==
    /\ pc = "lines"
    /\ LET keys == LineKeys
           base == Len(gmsh_lines)
           looked == {<<e[1], e[2]>> : e \in Range(keys)}
                         \cup {<<e[3], e[4]>> : e \in Range(keys)}
       IN  IF looked \subseteq Keys(point_map)
           THEN /\ gmsh_lines' = gmsh_lines \o
                       [k \in 1..Len(keys) |->
                           <<Get(point_map, <<keys[k][1], keys[k][2]>>),
                             Get(point_map, <<keys[k][3], keys[k][4]>>)>>]
                /\ line_map' = [k \in 1..Len(keys) |-> <<keys[k], base + k>>]
                /\ pc' = "transfinite"
           ELSE /\ pc' = "KeyError"
                /\ UNCHANGED <<gmsh_lines, line_map>>
    /\ UNCHANGED <<dataVars, inputVars, point_tags, point_map, surfaces,
                   gmsh_points, gmsh_transfinite, gmsh_loops, gmsh_surfaces,
                   gmsh_physical>>

----------------------------------------------------------------------------
(* apply_transfinite_curves *)

\* the x-parallel calls indexed by the row j instead of the column i
XCurveCallsByRow(lines) ==
    LET keys == XLineKeys
    IN  [k \in 1..Len(keys) |->
            <<Get(lines, keys[k]),
              disc_x[(keys[k][2] % Len(disc_x)) + 1],
              prog_x[(keys[k][2] % Len(prog_x)) + 1]>>]

\* the setTransfiniteCurve calls of the x-parallel loop: <<tag, n, progression>>
XCurveCalls(lines) ==
    LET keys == XLineKeys
    IN  [k \in 1..Len(keys) |->
            <<Get(lines, keys[k]), disc_x[keys[k][1] + 1], prog_x[keys[k][1] + 1]>>]

\* the setTransfiniteCurve calls of the y-parallel loop
YCurveCalls(lines) ==
    LET keys == YLineKeys
    IN  [k \in 1..Len(keys) |->
            <<Get(lines, keys[k]), disc_y[keys[k][2] + 1], prog_y[keys[k][2] + 1]>>]

ApplyTransfiniteCurves ==
    /\ pc = "transfinite"
    /\ IF Range(LineKeys) \subseteq Keys(line_map)
       THEN /\ gmsh_transfinite' = gmsh_transfinite \o XCurveCalls(line_map)
                                       \o YCurveCalls(line_map)
            /\ pc' = "surfaces"
       ELSE /\ pc' = "KeyError"
            /\ UNCHANGED gmsh_transfinite
    /\ UNCHANGED <<dataVars, inputVars, point_tags, point_map, line_map,
                   surfaces, gmsh_points, gmsh_lines, gmsh_loops,
                   gmsh_surfaces, gmsh_physical>>

----------------------------------------------------------------------------
(* generate_surfaces *)

\* skipping a cell only when its own lower-left corner is excluded
CellKeysOwnCorner == SelectSeq(Loop2(Nx - 1, Ny - 1), LAMBDA p : p \notin exclude)

\* lower-left corners (i, j) of the unit cells that are not skipped
CellKeys ==
    SelectSeq(Loop2(Nx - 1, Ny - 1), LAMBDA p :
        ~(\/ p \in exclude
          \/ <<p[1] + 1, p[2]>> \in exclude
          \/ <<p[1], p[2] + 1>> \in exclude
          \/ <<p[1] + 1, p[2] + 1>> \in exclude))

\* the keys of l1, l2, l3, l4 of the cell with lower-left corner (i, j)
CellLineKeys(i, j) ==
    << <<i, j, i + 1, j>>, <<i + 1, j, i + 1, j + 1>>,
       <<i, j + 1, i + 1, j + 1>>, <<i, j, i, j + 1>> >>

\* the loop with only the last curve reversed
CurveLoopOneReversed(lines, i, j) ==
    LET keys == CellLineKeys(i, j)
    IN  <<Get(lines, keys[1]), Get(lines, keys[2]),
          Get(lines, keys[3]), -Get(lines, keys[4])>>

\* the list handed to addCurveLoop
CurveLoop(lines, i, j) ==
    LET ks == CellLineKeys(i, j)
    IN  <<Get(lines, ks[1]), Get(lines, ks[2]),
          -Get(lines, ks[3]), -Get(lines, ks[4])>>

GenerateSurfaces ==
    /\ pc = "surfaces"
    /\ LET cells == CellKeys
           lbase == Len(gmsh_loops)
           sbase == Len(gmsh_surfaces)
           looked == UNION {Range(CellLineKeys(c[1], c[2])) : c \in Range(cells)}
       IN  IF looked \subseteq Keys(line_map)
           THEN /\ gmsh_loops' = gmsh_loops \o
                       [k \in 1..Len(cells) |->
                           CurveLoop(line_map, cells[k][1], cells[k][2])]
                /\ gmsh_surfaces' = gmsh_surfaces \o
                       [k \in 1..Len(cells) |->
                           [loops |-> <<lbase + k>>, transfinite |-> TRUE]]
                /\ surfaces' = [k \in 1..Len(cells) |-> sbase + k]
                /\ pc' = "groups"
           ELSE /\ pc' = "KeyError"
                /\ UNCHANGED <<gmsh_loops, gmsh_surfaces, surfaces>>
    /\ UNCHANGED <<dataVars, inputVars, point_tags, point_map, line_map,
                   gmsh_points, gmsh_lines, gmsh_transfinite, gmsh_physical>>

----------------------------------------------------------------------------
(* add_special_boundary_group and add_physical_groups *)

\* range(n)
Range0(n) == [k \in 1..n |-> k - 1]

LeftKeys ==
    LET js == SelectSeq(Range0(Ny - 1), LAMBDA j :
                  <<0, j>> \notin exclude /\ <<0, j + 1>> \notin exclude)
    IN  [k \in 1..Len(js) |-> <<0, js[k], 0, js[k] + 1>>]

RightKeys ==
    LET js == SelectSeq(Range0(Ny - 1), LAMBDA j :
                  <<Nx - 1, j>> \notin exclude /\ <<Nx - 1, j + 1>> \notin exclude)
    IN  [k \in 1..Len(js) |-> <<Nx - 1, js[k], Nx - 1, js[k] + 1>>]

BottomKeys ==
    LET is == SelectSeq(Range0(Nx - 1), LAMBDA i :
                  <<i, 0>> \notin exclude /\ <<i + 1, 0>> \notin exclude)
    IN  [k \in 1..Len(is) |-> <<is[k], 0, is[k] + 1, 0>>]

TopKeys ==
    LET is == SelectSeq(Range0(Nx - 1), LAMBDA i :
                  <<i, Ny - 1>> \notin exclude /\ <<i + 1, Ny - 1>> \notin exclude)
    IN  [k \in 1..Len(is) |-> <<is[k], Ny - 1, is[k] + 1, Ny - 1>>]

\* [lines[key] for key in keys]
Lookup(lines, keys) == [k \in 1..Len(keys) |-> Get(lines, keys[k])]

\* the adjacency test looking at the start point's neighbours only
BordersExcludedStartOnly(key) ==
    LET i1 == key[1]
        j1 == key[2]
        i2 == key[3]
        j2 == key[4]
    IN  IF i1 = i2
        THEN <<i1 - 1, j1>> \in exclude \/ <<i1 + 1, j1>> \in exclude
        ELSE IF j1 = j2
        THEN <<i1, j1 - 1>> \in exclude \/ <<i1, j1 + 1>> \in exclude
        ELSE FALSE

\* the adjacency test of add_special_boundary_group on one line key
BordersExcluded(key) ==
    LET i1 == key[1]
        j1 == key[2]
        i2 == key[3]
        j2 == key[4]
    IN  IF i1 = i2
        THEN \/ <<i1 - 1, j1>> \in exclude
             \/ <<i1 + 1, j1>> \in exclude
             \/ <<i1 - 1, j2>> \in exclude
             \/ <<i1 + 1, j2>> \in exclude
        ELSE IF j1 = j2
        THEN \/ <<i1, j1 - 1>> \in exclude
             \/ <<i1, j1 + 1>> \in exclude
             \/ <<i2, j2 - 1>> \in exclude
             \/ <<i2, j2 + 1>> \in exclude
        ELSE FALSE

\* special_lines without the skip of lines already grouped
SpecialLinesNoSkip(lines, existing_groups) ==
    Values(SelectSeq(lines, LAMBDA kv : BordersExcluded(kv[1])))

\* special_lines: lines.items() in insertion order, those already grouped skipped
SpecialLines(lines, existing_groups) ==
    LET existing_lines == UNION {Range(existing_groups[g]) : g \in DOMAIN existing_groups}
    IN  Values(SelectSeq(lines, LAMBDA kv :
            kv[2] \notin existing_lines /\ BordersExcluded(kv[1])))

PhysicalGroup(dim, entities, tag, name) ==
    [dim |-> dim, entities |-> entities, tag |-> tag, name |-> name]

\* the declaration made unconditionally
SpecialGroupAlways(special_lines, tag) ==
    <<PhysicalGroup(1, special_lines, tag, "InternalSide")>>

\* the declaration add_special_boundary_group makes, if any
SpecialGroup(special_lines, tag) ==
    IF special_lines # <<>>
    THEN <<PhysicalGroup(1, special_lines, tag, "InternalSide")>>
    ELSE <<>>

AddPhysicalGroups ==
    /\ pc = "groups"
    /\ LET looked == Range(LeftKeys) \cup Range(RightKeys)
                         \cup Range(BottomKeys) \cup Range(TopKeys)
       IN  IF looked \subseteq Keys(line_map)
           THEN LET left_lines == Lookup(line_map, LeftKeys)
                    right_lines == Lookup(line_map, RightKeys)
                    bottom_lines == Lookup(line_map, BottomKeys)
                    top_lines == Lookup(line_map, TopKeys)
                    special_lines == SpecialLines(line_map,
                        <<left_lines, right_lines, bottom_lines, top_lines>>)
                IN  /\ gmsh_physical' = gmsh_physical \o
                           << PhysicalGroup(1, left_lines, 1, "LeftSide"),
                              PhysicalGroup(1, right_lines, 2, "RightSide"),
                              PhysicalGroup(1, bottom_lines, 3, "BottomSide"),
                              PhysicalGroup(1, top_lines, 4, "TopSide") >>
                           \o SpecialGroup(special_lines, 5)
                           \o << PhysicalGroup(2, surfaces, 1000, "Domain") >>
                    /\ pc' = "done"
           ELSE /\ pc' = "KeyError"
                /\ UNCHANGED gmsh_physical
    /\ UNCHANGED <<dataVars, inputVars, point_tags, point_map, line_map,
                   surfaces, gmsh_points, gmsh_lines, gmsh_transfinite,
                   gmsh_loops, gmsh_surfaces>>

----------------------------------------------------------------------------
(* generate_data *)

\* largest k in lo..hi with k * k <= v
RECURSIVE ISqrt(_, _, _)
ISqrt(v, lo, hi) ==
    IF lo = hi THEN lo
    ELSE LET mid == (lo + hi + 1) \div 2
         IN  IF mid * mid <= v THEN ISqrt(v, mid, hi) ELSE ISqrt(v, lo, mid - 1)

\* np.sqrt of a non-negative integer
NpSqrt(v) ==
    LET whole == ISqrt(v, 0, v)
    IN  Rat(ISqrt(v * SqrtScale * SqrtScale, whole * SqrtScale,
                  (whole + 1) * SqrtScale), SqrtScale)

num_x == 4
ymin == <<-1, 1>>
ymax == <<1, 1>>
xlen == <<2, 1>>

\* ytilde, by flow regime
WallUnit(lam, re, yp) ==
    IF lam THEN RDiv(yp, NpSqrt(3 * re))
    ELSE RDiv(RMul(yp, R(20)), R(re))

\* the accumulation loop run over all n layers
RECURSIVE GradedLengthAllLayers(_, _, _)
GradedLengthAllLayers(first, r, n) ==
    IF n <= 0 THEN R(0)
    ELSE RAdd(GradedLengthAllLayers(first, r, n - 1), RMul(first, RPow(r, n - 1)))

\* the accumulation loop: for i in range(n - 1): dyprog += y0 * r**i
RECURSIVE GradedLength(_, _, _)
GradedLength(first, r, n) ==
    IF n <= 1 THEN R(0)
    ELSE RAdd(GradedLength(first, r, n - 1), RMul(first, RPow(r, n - 2)))

\* dy1: the layer after the graded ones, at rate r**(n - 1)
NextLayer(first, r, n) == RMul(first, RPow(r, n - 1))

\* dycst: what the two graded regions leave of ymax - ymin
CoreLength(graded) == RSub(RSub(ymax, ymin), RMul(R(2), graded))

\* num_y_cst with the quotient rounded down
CoreCountFloor(core, layer) ==
    LET q == RDiv(core, layer) IN (q[1] \div q[2]) + 1

\* num_y_cst
CoreCount(core, layer) == Ceil(RDiv(core, layer)) + 1

\* the breakpoints with the fourth one placed at ymin + dycst
BreakpointsShortCore(graded, core) ==
    << RAdd(RNeg(xlen), ymin),
       ymin,
       RAdd(ymin, graded),
       RAdd(ymin, core),
       ymax,
       RAdd(ymax, xlen) >>

\* coord_x and coord_y (the same list)
Breakpoints(graded, core) ==
    << RAdd(RNeg(xlen), ymin),
       ymin,
       RAdd(ymin, graded),
       RAdd(RAdd(ymin, graded), core),
       ymax,
       RAdd(ymax, xlen) >>

\* the corner list with the two upper corners missing
CornersLowerOnly(n, m) == {<<0, 0>>, <<n - 1, 0>>}

\* the four corner indices of an n-by-m lattice
Corners(n, m) == {<<0, 0>>, <<n - 1, 0>>, <<0, m - 1>>, <<n - 1, m - 1>>}

\* disc_x and disc_y
Discretization(n_prog, n_cst) == <<num_x, n_prog, n_cst, n_prog, num_x>>

\* prog_x and prog_y
Progression(r) == <<R(1), r, R(1), RDiv(R(1), r), R(1)>>

\* IEEE specials: numpy divides by zero and takes roots of negatives with a
\* warning, not an exception
NaN == <<0, 0>>
Inf == <<1, 0>>
NegInf == <<-1, 0>>

Sign(k) == IF k > 0 THEN 1 ELSE IF k < 0 THEN -1 ELSE 0

Special(s) == IF s > 0 THEN Inf ELSE IF s < 0 THEN NegInf ELSE NaN

\* y0 = yplus / np.sqrt(3 * Re) * nelq where Re <= 0: the root is nan below
\* zero and 0.0 at zero, and x / 0.0 is inf, -inf or nan by the sign of x
NonFiniteFirst(re, yp, nq) ==
    IF re < 0 THEN NaN ELSE Special(Sign(yp[1]) * Sign(nq))

\* dycst = ymax - ymin - 2 * dyprog for a non-finite dyprog
NonFiniteCore(graded) ==
    IF graded = Inf THEN NegInf ELSE IF graded = NegInf THEN Inf ELSE NaN

\* how the body of generate_data ends (growth_rate > 0, num_y_prog >= 2):
\* line 355 divides by Re; line 368 divides by dy1 and converts the ceiling
\* of the quotient to int
DataOutcome(lam, re, yp, nq) ==
    IF ~lam /\ re = 0 THEN "ZeroDivisionError"
    ELSE IF lam /\ re <= 0 THEN "ValueError"
    ELSE IF yp[1] = 0 \/ nq = 0
         THEN IF lam THEN "OverflowError" ELSE "ZeroDivisionError"
    ELSE "returns"

\* the locals line 368 leaves behind when it raises
DataRaisesAtCount(first, graded, layer, core) ==
    /\ y0' = first
    /\ dyprog' = graded
    /\ dy1' = layer
    /\ dycst' = core
    /\ UNCHANGED <<num_y_cst, inputVars>>

GenerateData ==
    /\ pc = "data"
    /\ pc' = IF DataOutcome(laminar, Re, yplus, nelq) = "returns"
             THEN "points"
             ELSE DataOutcome(laminar, Re, yplus, nelq)
    /\ IF ~laminar /\ Re = 0
       THEN UNCHANGED <<y0, dyprog, dy1, dycst, num_y_cst, inputVars>>
       ELSE IF laminar /\ Re <= 0
       THEN LET first == NonFiniteFirst(Re, yplus, nelq)
            IN  DataRaisesAtCount(first, first, first, NonFiniteCore(first))
       ELSE
       LET first == RMul(WallUnit(laminar, Re, yplus), R(nelq))
           graded == GradedLength(first, growth_rate, num_y_prog)
           layer == NextLayer(first, growth_rate, num_y_prog)
           core == CoreLength(graded)
       IN  IF layer = R(0)
           THEN DataRaisesAtCount(first, graded, layer, core)
           ELSE
           LET n_cst == CoreCount(core, layer)
               axis == Breakpoints(graded, core)
           IN  /\ y0' = first
               /\ dyprog' = graded
               /\ dy1' = layer
               /\ dycst' = core
               /\ num_y_cst' = n_cst
               /\ coord_x' = axis
               /\ coord_y' = axis
               /\ exclude' = Corners(Len(axis), Len(axis))
               /\ disc_x' = Discretization(num_y_prog, n_cst)
               /\ disc_y' = Discretization(num_y_prog, n_cst)
               /\ prog_x' = Progression(growth_rate)
               /\ prog_y' = Progression(growth_rate)
    /\ UNCHANGED <<laminar, Re, nelq, yplus, growth_rate, num_y_prog,
                   point_tags, point_map, line_map, surfaces, gmsh_points,
                   gmsh_lines, gmsh_transfinite, gmsh_loops, gmsh_surfaces,
                   gmsh_physical>>

----------------------------------------------------------------------------
(* Initial states and specifications *)

\* nothing built yet: gmsh.initialize() and an empty model
Fresh ==
    /\ point_tags = <<>> /\ point_map = <<>> /\ line_map = <<>>
    /\ surfaces = <<>>
    /\ gmsh_points = <<>> /\ gmsh_lines = <<>> /\ gmsh_transfinite = <<>>
    /\ gmsh_loops = <<>> /\ gmsh_surfaces = <<>> /\ gmsh_physical = <<>>

\* generate_data not run: its locals hold nothing yet
NoData ==
    /\ y0 = R(0) /\ dyprog = R(0) /\ dy1 = R(0) /\ dycst = R(0)
    /\ num_y_cst = 0

\* the values generate_data fixes in its body
FixedGrading == growth_rate = <<7, 5>> /\ num_y_prog = 4

\* the __main__ arguments
MainArgs == laminar = LAMINAR /\ Re = RE /\ nelq = NELQ /\ yplus = YPLUS

\* an axis of n breakpoints 0, 1, ..., n - 1
Axis(n) == [k \in 1..n |-> R(k - 1)]

Lattice(n, m) == (0..(n - 1)) \X (0..(m - 1))

\* one (element count, growth rate) pair per lane
LaneValues == {<<2, R(1)>>, <<4, <<7, 5>>>>}

\* the library functions called on caller-supplied axes, every exclusion set,
\* uniform lane tables
Init ==
    /\ pc = "points"
    /\ MainArgs /\ FixedGrading /\ NoData /\ Fresh
    /\ \E n \in 1..MaxN, m \in 1..MaxN :
          /\ n * m <= MaxCells
          /\ coord_x = Axis(n)
          /\ coord_y = Axis(m)
          /\ exclude \in SUBSET Lattice(n, m)
          /\ disc_x = [k \in 1..(n - 1) |-> num_x]
          /\ disc_y = [k \in 1..(m - 1) |-> num_x]
          /\ prog_x = [k \in 1..(n - 1) |-> R(1)]
          /\ prog_y = [k \in 1..(m - 1) |-> R(1)]

Next ==
    \/ GeneratePoints
    \/ GenerateLines
    \/ ApplyTransfiniteCurves
    \/ GenerateSurfaces
    \/ AddPhysicalGroups

Spec == Init /\ [][Next]_vars

\* the same functions with every lane table, at most MaxExcl excluded indices
InitDisc ==
    /\ pc = "points"
    /\ MainArgs /\ FixedGrading /\ NoData /\ Fresh
    /\ \E n \in 1..MaxN, m \in 1..MaxN :
          /\ n * m <= MaxCells
          /\ coord_x = Axis(n)
          /\ coord_y = Axis(m)
          /\ exclude \in {E \in SUBSET Lattice(n, m) : Cardinality(E) <= MaxExcl}
          /\ \E tx \in [1..(n - 1) -> LaneValues], ty \in [1..(m - 1) -> LaneValues] :
                /\ disc_x = [k \in 1..(n - 1) |-> tx[k][1]]
                /\ prog_x = [k \in 1..(n - 1) |-> tx[k][2]]
                /\ disc_y = [k \in 1..(m - 1) |-> ty[k][1]]
                /\ prog_y = [k \in 1..(m - 1) |-> ty[k][2]]

NextDisc ==
    \/ GeneratePoints
    \/ GenerateLines
    \/ ApplyTransfiniteCurves
    \/ GenerateSurfaces
    \/ AddPhysicalGroups

SpecDisc == InitDisc /\ [][NextDisc]_vars

\* valid arguments of generate_data
ReValues == {3, 12, 300, RE, 10000}
NelqValues == {1, 3, NELQ}
YplusValues == {<<1, 2>>, YPLUS, <<5, 1>>}

NoLattice ==
    /\ coord_x = <<>> /\ coord_y = <<>> /\ exclude = {}
    /\ disc_x = <<>> /\ disc_y = <<>> /\ prog_x = <<>> /\ prog_y = <<>>

\* the __main__ pipeline, over valid arguments of generate_data
InitCross ==
    /\ pc = "data"
    /\ laminar \in BOOLEAN
    /\ Re \in ReValues
    /\ nelq \in NelqValues
    /\ yplus \in YplusValues
    /\ FixedGrading /\ NoData /\ NoLattice /\ Fresh

NextCross ==
    \/ GenerateData
    \/ GeneratePoints
    \/ GenerateLines
    \/ ApplyTransfiniteCurves
    \/ GenerateSurfaces
    \/ AddPhysicalGroups

SpecCross == InitCross /\ [][NextCross]_vars

\* generate_data alone, its growth rate and layer count swept
GrowthRates == {R(1), <<7, 5>>, <<3, 2>>, R(2)}

InitGrading ==
    /\ pc = "data"
    /\ laminar \in BOOLEAN
    /\ Re \in ReValues
    /\ nelq \in NelqValues
    /\ yplus \in YplusValues
    /\ growth_rate \in GrowthRates
    /\ num_y_prog \in 1..MaxLayers
    /\ NoData /\ NoLattice /\ Fresh

NextGrading == GenerateData

SpecGrading == InitGrading /\ [][NextGrading]_vars

\* the __main__ pipeline on arguments with Re <= 0 or yplus <= 0
BadReValues == {0 - RE, 0}
BadYplusValues == {<<-1, 1>>, <<0, 1>>}

InitInvalid ==
    /\ pc = "data"
    /\ laminar \in BOOLEAN
    /\ Re \in ReValues \cup BadReValues
    /\ nelq \in NelqValues
    /\ yplus \in YplusValues \cup BadYplusValues
    /\ Re \in BadReValues \/ yplus \in BadYplusValues
    /\ FixedGrading /\ NoData /\ NoLattice /\ Fresh

NextInvalid ==
    \/ GenerateData
    \/ GeneratePoints
    \/ GenerateLines
    \/ ApplyTransfiniteCurves
    \/ GenerateSurfaces
    \/ AddPhysicalGroups

SpecInvalid == InitInvalid /\ [][NextInvalid]_vars

----------------------------------------------------------------------------
(* Vocabulary of the properties: the full lattice, stated without the      *)
(* builder's loops                                                         *)

PastData == pc # "data"
PastPoints == pc \notin {"data", "points"}
PastLines == pc \notin {"data", "points", "lines"}
PastCurves == pc \notin {"data", "points", "lines", "transfinite"}
PastSurfaces == pc \notin {"data", "points", "lines", "transfinite", "surfaces"}

AllNodes == Lattice(Nx, Ny)
AllXEdges == {<<i, j, i + 1, j>> : i \in 0..(Nx - 2), j \in 0..(Ny - 1)}
AllYEdges == {<<i, j, i, j + 1>> : i \in 0..(Nx - 1), j \in 0..(Ny - 2)}
AllEdges == AllXEdges \cup AllYEdges
AllCells == Lattice(Nx - 1, Ny - 1)

EdgeEnds(e) == {<<e[1], e[2]>>, <<e[3], e[4]>>}
CellCorners(c) ==
    {<<c[1], c[2]>>, <<c[1] + 1, c[2]>>, <<c[1], c[2] + 1>>, <<c[1] + 1, c[2] + 1>>}
CellEdges(c) == {e \in AllEdges : EdgeEnds(e) \subseteq CellCorners(c)}

NodeRealized(p) == p \in Keys(point_map)
EdgeRealized(e) == e \in Keys(line_map)

\* a surface exists whose curve loop runs over exactly the four edges of cell c
FaceRealized(c) ==
    /\ CellEdges(c) \subseteq Keys(line_map)
    /\ \E k \in DOMAIN surfaces :
          LET loop == gmsh_loops[gmsh_surfaces[surfaces[k]].loops[1]]
          IN  {Abs(t) : t \in Range(loop)} = {Get(line_map, e) : e \in CellEdges(c)}

NoDuplicates(s) == Cardinality(Range(s)) = Len(s)

----------------------------------------------------------------------------
\* C1: for every exclusion set, node (i, j) is realized iff (i, j) is not
\* excluded, an edge iff neither endpoint is excluded, a face iff none of its
\* four corners is excluded; a realized entity is what it would be with no
\* exclusion: the node sits at (coord_x[i], coord_y[j]), the edge joins its two
\* endpoint nodes, and nothing is created twice.
C1_ExclusionLocality ==
    /\ PastPoints =>
          /\ \A p \in AllNodes : NodeRealized(p) <=> p \notin exclude
          /\ Keys(point_map) \subseteq AllNodes
          /\ NoDuplicates(point_map) /\ Len(gmsh_points) = Len(point_map)
          /\ \A p \in Keys(point_map) :
                gmsh_points[Get(point_map, p)]
                    = <<coord_x[p[1] + 1], coord_y[p[2] + 1], ZVAL>>
    /\ PastLines =>
          /\ \A e \in AllEdges : EdgeRealized(e) <=> EdgeEnds(e) \cap exclude = {}
          /\ Keys(line_map) \subseteq AllEdges
          /\ NoDuplicates(line_map) /\ Len(gmsh_lines) = Len(line_map)
          /\ \A e \in Keys(line_map) :
                gmsh_lines[Get(line_map, e)]
                    = <<Get(point_map, <<e[1], e[2]>>), Get(point_map, <<e[3], e[4]>>)>>
    /\ PastSurfaces =>
          /\ \A c \in AllCells : FaceRealized(c) <=> CellCorners(c) \cap exclude = {}
          /\ Len(surfaces) = Cardinality({c \in AllCells : FaceRealized(c)})
          /\ Len(gmsh_surfaces) = Len(surfaces)

\* a 3-by-3 lattice built to the end with one corner excluded: 8 nodes, 10
\* edges and 3 faces are left
C1_Witness ==
    /\ pc = "done" /\ Nx = 3 /\ Ny = 3 /\ exclude = {<<0, 0>>}
    /\ Len(point_map) = 8 /\ Len(line_map) = 10 /\ Len(surfaces) = 3
    /\ ~FaceRealized(<<0, 0>>) /\ FaceRealized(<<1, 1>>)

----------------------------------------------------------------------------
\* C2: with nothing excluded, an Nx-by-Ny lattice yields exactly Nx*Ny nodes,
\* (Nx-1)*Ny + Nx*(Ny-1) edges and (Nx-1)*(Ny-1) faces.
C2_EntityCounts ==
    exclude = {} =>
        /\ PastPoints =>
              /\ Len(point_tags) = Nx * Ny
              /\ Len(gmsh_points) = Nx * Ny
        /\ PastLines =>
              /\ Len(line_map) = (Nx - 1) * Ny + Nx * (Ny - 1)
              /\ Len(gmsh_lines) = (Nx - 1) * Ny + Nx * (Ny - 1)
        /\ PastSurfaces =>
              /\ Len(surfaces) = (Nx - 1) * (Ny - 1)
              /\ Len(gmsh_surfaces) = (Nx - 1) * (Ny - 1)

\* the 3-by-3 lattice with nothing excluded: 9 nodes, 12 edges, 4 faces
C2_Witness ==
    /\ pc = "done" /\ Nx = 3 /\ Ny = 3 /\ exclude = {}
    /\ Len(point_tags) = 9 /\ Len(line_map) = 12 /\ Len(surfaces) = 4

----------------------------------------------------------------------------
(* Physical groups as the kernel holds them *)

GroupNames == [k \in DOMAIN gmsh_physical |-> gmsh_physical[k].name]

\* the line tags declared under a name
EdgeGroup(name) ==
    UNION {Range(gmsh_physical[k].entities) :
              k \in {q \in DOMAIN gmsh_physical :
                        gmsh_physical[q].dim = 1 /\ gmsh_physical[q].name = name}}

OuterNames == {"LeftSide", "RightSide", "BottomSide", "TopSide"}
OuterEdges == UNION {EdgeGroup(n) : n \in OuterNames}
GroupedEdges == OuterEdges \cup EdgeGroup("InternalSide")

IsYParallel(e) == e[1] = e[3]

\* on the lattice perimeter
OnPerimeter(e) ==
    IF IsYParallel(e) THEN e[1] \in {0, Nx - 1} ELSE e[2] \in {0, Ny - 1}

\* one of the (at most two) unit cells the edge bounds has an excluded corner
BordersExcludedCell(e) ==
    \E c \in AllCells :
        /\ EdgeEnds(e) \subseteq CellCorners(c)
        /\ CellCorners(c) \cap exclude # {}

\* the four indices one step off the edge, across it
PerpNeighbours(e) ==
    IF IsYParallel(e)
    THEN {<<e[1] - 1, e[2]>>, <<e[1] + 1, e[2]>>, <<e[3] - 1, e[4]>>, <<e[3] + 1, e[4]>>}
    ELSE {<<e[1], e[2] - 1>>, <<e[1], e[2] + 1>>, <<e[3], e[4] - 1>>, <<e[3], e[4] + 1>>}

----------------------------------------------------------------------------
\* C3: after add_physical_groups, a realized edge is in at least one of the
\* five edge groups if it lies on the lattice perimeter or bounds a unit cell
\* with an excluded corner, and in none of them otherwise.
C3_GroupCoverage ==
    pc = "done" =>
        \A e \in Keys(line_map) :
            (Get(line_map, e) \in GroupedEdges)
                <=> (OnPerimeter(e) \/ BordersExcludedCell(e))

\* a finished 3-by-3 lattice with (2, 0) excluded: the interior edge
\* (0,1)-(1,1) is in no group, the interior edge (1,0)-(1,1) is in one
C3_Witness ==
    /\ pc = "done" /\ Nx = 3 /\ Ny = 3 /\ exclude = {<<2, 0>>}
    /\ Get(line_map, <<0, 1, 1, 1>>) \notin GroupedEdges
    /\ Get(line_map, <<1, 0, 1, 1>>) \in EdgeGroup("InternalSide")
    /\ Get(line_map, <<0, 0, 0, 1>>) \in EdgeGroup("LeftSide")

----------------------------------------------------------------------------
\* C4: the four outer groups LeftSide, RightSide, BottomSide, TopSide are
\* pairwise disjoint, for every lattice with Nx >= 1 and Ny >= 1.
C4_OuterDisjoint ==
    pc = "done" =>
        \A a \in OuterNames, b \in OuterNames :
            a # b => EdgeGroup(a) \cap EdgeGroup(b) = {}

----------------------------------------------------------------------------
\* C5: no edge of an outer group is in InternalSide, even with an excluded
\* perpendicular neighbour; InternalSide holds only edges of no outer group
\* that have an excluded perpendicular neighbour.
C5_OuterPrecedence ==
    pc = "done" =>
        /\ OuterEdges \cap EdgeGroup("InternalSide") = {}
        /\ \A t \in EdgeGroup("InternalSide") :
              \E e \in Keys(line_map) :
                  /\ Get(line_map, e) = t
                  /\ t \notin OuterEdges
                  /\ PerpNeighbours(e) \cap exclude # {}

\* a finished 3-by-3 lattice with (1, 0) excluded: the LeftSide edge
\* (0,0)-(0,1) has the excluded neighbour (1, 0) and stays out of the
\* non-empty InternalSide
C5_Witness ==
    /\ pc = "done" /\ Nx = 3 /\ Ny = 3 /\ exclude = {<<1, 0>>}
    /\ Get(line_map, <<0, 0, 0, 1>>) \in EdgeGroup("LeftSide")
    /\ PerpNeighbours(<<0, 0, 0, 1>>) \cap exclude # {}
    /\ Get(line_map, <<0, 0, 0, 1>>) \notin EdgeGroup("InternalSide")
    /\ Get(line_map, <<0, 1, 1, 1>>) \in EdgeGroup("InternalSide")

----------------------------------------------------------------------------
\* C6: InternalSide is declared exactly when some edge qualifies for it, never
\* empty; with nothing excluded the declared groups are the four outer edge
\* groups and Domain, and no other.
C6_InternalOnlyIfNonEmpty ==
    pc = "done" =>
        /\ \A k \in DOMAIN gmsh_physical :
              gmsh_physical[k].name = "InternalSide"
                  => gmsh_physical[k].entities # <<>>
        /\ ("InternalSide" \in Range(GroupNames))
              <=> (\E e \in Keys(line_map) :
                      /\ Get(line_map, e) \notin OuterEdges
                      /\ PerpNeighbours(e) \cap exclude # {})
        /\ exclude = {} =>
              GroupNames = <<"LeftSide", "RightSide", "BottomSide", "TopSide", "Domain">>

\* a finished 3-by-3 lattice with nothing excluded: five groups, LeftSide with
\* two edges, Domain with four faces
C6_Witness ==
    /\ pc = "done" /\ Nx = 3 /\ Ny = 3 /\ exclude = {}
    /\ Len(gmsh_physical) = 5
    /\ "InternalSide" \notin Range(GroupNames)
    /\ Cardinality(EdgeGroup("LeftSide")) = 2
    /\ Len(gmsh_physical[5].entities) = 4

----------------------------------------------------------------------------
\* C7: on the 6-by-6 lattice generate_data returns, with exactly the four
\* corner indices excluded, 21 faces are realized, and InternalSide is exactly
\* the realized edges that bound one of the four removed corner cells and are
\* in no outer group: two per corner, 8 in all.
RemovedCornerCells == {<<0, 0>>, <<4, 0>>, <<0, 4>>, <<4, 4>>}

C7_CrossScenario ==
    pc = "done" =>
        /\ Nx = 6 /\ Ny = 6
        /\ exclude = {<<0, 0>>, <<5, 0>>, <<0, 5>>, <<5, 5>>}
        /\ Len(surfaces) = 21
        /\ Cardinality({c \in AllCells : FaceRealized(c)}) = 21
        /\ \A c \in RemovedCornerCells : ~FaceRealized(c)
        /\ EdgeGroup("InternalSide") =
              {Get(line_map, e) :
                  e \in {f \in Keys(line_map) :
                            /\ \E c \in RemovedCornerCells : f \in CellEdges(c)
                            /\ Get(line_map, f) \notin OuterEdges}}
        /\ Cardinality(EdgeGroup("InternalSide")) = 8
        /\ \A c \in RemovedCornerCells :
              Cardinality({f \in Keys(line_map) :
                              /\ f \in CellEdges(c)
                              /\ Get(line_map, f) \in EdgeGroup("InternalSide")}) = 2

\* the __main__ run (laminar, Re = 1000, nelq = 7, yplus = 1) finished, with
\* the two InternalSide edges of the corner cell at (0, 0)
C7_Witness ==
    /\ pc = "done" /\ laminar = LAMINAR /\ Re = RE /\ nelq = NELQ /\ yplus = YPLUS
    /\ Len(surfaces) = 21
    /\ {Get(line_map, <<1, 0, 1, 1>>), Get(line_map, <<0, 1, 1, 1>>)}
          \subseteq EdgeGroup("InternalSide")

----------------------------------------------------------------------------
\* C8: apply_transfinite_curves makes exactly one setTransfiniteCurve call per
\* realized edge and none for anything else; the x-parallel edge starting at
\* column i gets (disc_x[i], prog_x[i]) in every row, the y-parallel edge
\* starting at row j gets (disc_y[j], prog_y[j]) in every column.
CallsOn(tag) == {k \in DOMAIN gmsh_transfinite : gmsh_transfinite[k][1] = tag}

C8_TransfiniteAssignment ==
    PastCurves =>
        /\ Len(gmsh_transfinite) = Len(line_map)
        /\ \A k \in DOMAIN gmsh_transfinite :
              gmsh_transfinite[k][1] \in Range(Values(line_map))
        /\ \A e \in AllEdges :
              IF EdgeEnds(e) \cap exclude = {}
              THEN /\ e \in Keys(line_map)
                   /\ Cardinality(CallsOn(Get(line_map, e))) = 1
                   /\ \A k \in CallsOn(Get(line_map, e)) :
                         gmsh_transfinite[k] =
                             IF IsYParallel(e)
                             THEN <<Get(line_map, e), disc_y[e[2] + 1], prog_y[e[2] + 1]>>
                             ELSE <<Get(line_map, e), disc_x[e[1] + 1], prog_x[e[1] + 1]>>
              ELSE e \notin Keys(line_map)

\* a 3-by-3 lattice with (2, 2) excluded and lane tables that differ between
\* lanes and between axes: 10 edges, 10 calls
C8_Witness ==
    /\ pc = "done" /\ Nx = 3 /\ Ny = 3 /\ exclude = {<<2, 2>>}
    /\ disc_x = <<2, 4>> /\ disc_y = <<4, 2>>
    /\ Len(gmsh_transfinite) = 10
    /\ gmsh_transfinite[CHOOSE k \in CallsOn(Get(line_map, <<1, 0, 2, 0>>)) : TRUE]
          = <<Get(line_map, <<1, 0, 2, 0>>), 4, <<7, 5>>>>

----------------------------------------------------------------------------
\* the closed form of first * (1 + r + ... + r^(k-1))
GeometricSum(first, r, k) ==
    IF r = R(1) THEN RMul(R(k), first)
    ELSE RDiv(RMul(first, RSub(RPow(r, k), R(1))), RSub(r, R(1)))

\* C9 as stated: dyprog over n = num_y_prog graded layers is n * y0 when the
\* growth rate is 1 and y0 * (r^n - 1) / (r - 1) when it is above 1.
C9_GradedLengthAllLayers ==
    (PastData /\ (growth_rate = R(1) \/ RLess(R(1), growth_rate)))
        => dyprog = GeometricSum(y0, growth_rate, num_y_prog)

\* C9 amended: dyprog is the sum of the first n - 1 layers, n = num_y_prog:
\* (n - 1) * y0 when the growth rate is 1, y0 * (r^(n-1) - 1) / (r - 1) when it
\* is above 1; the n-th layer, y0 * r^(n-1), is dy1 and is not part of dyprog.
C9_GradedLengthButLast ==
    PastData =>
        /\ ((growth_rate = R(1) \/ RLess(R(1), growth_rate))
              => dyprog = GeometricSum(y0, growth_rate, num_y_prog - 1))
        /\ dy1 = RMul(y0, RPow(growth_rate, num_y_prog - 1))
        /\ RAdd(dyprog, dy1) = GeometricSum(y0, growth_rate, num_y_prog)

\* generate_data run with the values of __main__ and of its body (r = 1.4,
\* n = 4): dyprog = y0 * (1 + 1.4 + 1.96) = y0 * 109/25, y0 about 0.1278
C9_Witness ==
    /\ pc = "points" /\ laminar = LAMINAR /\ Re = RE /\ nelq = NELQ /\ yplus = YPLUS
    /\ growth_rate = <<7, 5>> /\ num_y_prog = 4
    /\ dyprog = RMul(y0, <<109, 25>>)
    /\ RLess(<<1277, 10000>>, y0) /\ RLess(y0, <<1279, 10000>>)

----------------------------------------------------------------------------
\* C10: the output of generate_data is mirror-symmetric about the midpoint:
\* coord[k] + coord[n-1-k] = ymin + ymax on both axes, the growth-rate arrays
\* are [1, r, 1, 1/r, 1] with prog[k] * prog[m-1-k] = 1, and the element-count
\* arrays satisfy disc[k] = disc[m-1-k].
Mirrored(axis) ==
    \A k \in DOMAIN axis : RAdd(axis[k], axis[Len(axis) + 1 - k]) = RAdd(ymin, ymax)

Reciprocal(prog) ==
    \A k \in DOMAIN prog : RMul(prog[k], prog[Len(prog) + 1 - k]) = R(1)

Palindrome(disc) ==
    \A k \in DOMAIN disc : disc[k] = disc[Len(disc) + 1 - k]

C10_MirrorSymmetry ==
    PastData =>
        /\ Len(coord_x) = 6 /\ Len(coord_y) = 6
        /\ Mirrored(coord_x) /\ Mirrored(coord_y)
        /\ Len(prog_x) = 5 /\ Len(prog_y) = 5
        /\ prog_x = <<R(1), growth_rate, R(1), RDiv(R(1), growth_rate), R(1)>>
        /\ prog_y = prog_x
        /\ Reciprocal(prog_x) /\ Reciprocal(prog_y)
        /\ Len(disc_x) = 5 /\ Len(disc_y) = 5
        /\ Palindrome(disc_x) /\ Palindrome(disc_y)

\* the output for the arguments of __main__: a graded lane at 7/5 mirrored by
\* one at 5/7, inner breakpoints strictly inside (ymin, ymax)
C10_Witness ==
    /\ pc = "points" /\ laminar = LAMINAR /\ Re = RE /\ nelq = NELQ /\ yplus = YPLUS
    /\ prog_x[2] = <<7, 5>> /\ prog_x[4] = <<5, 7>>
    /\ RLess(coord_x[2], coord_x[3]) /\ RLess(coord_x[3], coord_x[4])
    /\ RLess(coord_x[4], coord_x[5])
    /\ disc_y[2] = 4 /\ disc_y[4] = 4 /\ disc_y[3] > 1

----------------------------------------------------------------------------
RPositive(a) == a[1] > 0 /\ a[2] > 0

\* a <= b, by the sign of the difference
RAtMost(a, b) == ~RPositive(RSub(a, b))

\* C11: num_y_cst is ceil(dycst / dy1) + 1 with dy1 = y0 * r^(n-1), and for
\* every positive core length the spacing of the constant lane, dycst over its
\* num_y_cst - 1 subdivisions (and all the more over num_y_cst), is at most dy1
\* (spacings are compared as multiples of dy1, q = dycst / dy1).
C11_CoreResolution ==
    (PastData /\ RPositive(dycst)) =>
        /\ dy1 = RMul(y0, RPow(growth_rate, num_y_prog - 1))
        /\ RPositive(dy1)
        /\ num_y_cst >= 2
        /\ LET q == RDiv(dycst, dy1)
           IN  /\ q[1] <= (num_y_cst - 1) * q[2]
               /\ q[1] > (num_y_cst - 2) * q[2]
               /\ RAtMost(RDiv(q, R(num_y_cst - 1)), R(1))
               /\ RAtMost(RDiv(q, R(num_y_cst)), R(1))

\* the arguments of __main__: dycst / dy1 is about 2.53, so num_y_cst = 4 and
\* the constant lane's three intervals are shorter than dy1
C11_Witness ==
    /\ pc = "points" /\ laminar = LAMINAR /\ Re = RE /\ nelq = NELQ /\ yplus = YPLUS
    /\ growth_rate = <<7, 5>> /\ num_y_prog = 4
    /\ RPositive(dycst) /\ num_y_cst = 4
    /\ RPositive(RSub(RDiv(dycst, dy1), <<5, 2>>))
    /\ RPositive(RSub(dy1, RDiv(dycst, R(3))))

----------------------------------------------------------------------------
DataErrors == {"ZeroDivisionError", "ValueError", "OverflowError"}

\* C12: with Re <= 0, yplus <= 0 or a growth rate <= 0, generate_data stops
\* with an error and returns no axes or tables.  Any exception raised anywhere
\* in the body is counted as the rejection; the formula is violated only by a
\* call that returns.
C12_InvalidInputRejected ==
    (PastData /\ (Re <= 0 \/ yplus[1] <= 0 \/ growth_rate[1] <= 0)) =>
        /\ pc \in DataErrors
        /\ NoLattice

----------------------------------------------------------------------------
\* the exclusion set holds every node of some row or of some column
WholeLineExcluded ==
    \/ \E i \in 0..(Nx - 1) : \A j \in 0..(Ny - 1) : <<i, j>> \in exclude
    \/ \E j \in 0..(Ny - 1) : \A i \in 0..(Nx - 1) : <<i, j>> \in exclude

\* the surface tags declared under a name
FaceGroup(name) ==
    UNION {Range(gmsh_physical[k].entities) :
              k \in {q \in DOMAIN gmsh_physical :
                        gmsh_physical[q].dim = 2 /\ gmsh_physical[q].name = name}}

\* C13: on a lattice that has cells, an exclusion set that removes a whole row
\* or column and leaves no face is reported: the pipeline never runs to its end
\* with an empty face list and an empty Domain group.
C13_DegenerateReported ==
    (Nx >= 2 /\ Ny >= 2 /\ WholeLineExcluded /\ PastSurfaces /\ surfaces = <<>>) =>
        ~(pc = "done" /\ "Domain" \in Range(GroupNames) /\ FaceGroup("Domain") = {})

----------------------------------------------------------------------------
(* Order of the creation requests.  The k-th addPoint, addLine, addCurveLoop
   call is entry k of gmsh_points, gmsh_lines, gmsh_loops and returns tag k. *)

LexLess(p, q) == p[1] < q[1] \/ (p[1] = q[1] /\ p[2] < q[2])

IsXParallel(e) == e[2] = e[4]

\* x-parallel edges first; within an orientation, by start index
EdgeBefore(e, f) ==
    \/ IsXParallel(e) /\ IsYParallel(f)
    \/ /\ IsXParallel(e) = IsXParallel(f)
       /\ LexLess(<<e[1], e[2]>>, <<f[1], f[2]>>)

\* the cell whose loop was the k-th one requested, read off its first curve
LoopCell(k) ==
    LET e == CHOOSE f \in Keys(line_map) : Get(line_map, f) = gmsh_loops[k][1]
    IN  <<e[1], e[2]>>

RealizableEdges == {e \in AllEdges : EdgeEnds(e) \cap exclude = {}}
RealizableCells == {c \in AllCells : CellCorners(c) \cap exclude = {}}

\* C14: nodes are requested in lexicographic order of (i, j), edges x-parallel
\* first and then y-parallel, each in lexicographic order of the start index,
\* faces in lexicographic order of the lower-left corner; what is requested is
\* exactly what the axes and the exclusion set leave, so the sequence is a
\* function of them and excluding only deletes from it; an edge refers to
\* points that exist and a loop to lines that exist.
C14_CreationOrder ==
    /\ PastPoints =>
          /\ Keys(point_map) = AllNodes \ exclude
          /\ Len(gmsh_points) = Len(point_map)
          /\ \A a \in DOMAIN point_map :
                /\ point_map[a][2] = a
                /\ \A b \in DOMAIN point_map :
                      a < b => LexLess(point_map[a][1], point_map[b][1])
    /\ (PastLines /\ pc # "KeyError") =>
          /\ Keys(line_map) = RealizableEdges
          /\ Len(gmsh_lines) = Len(line_map)
          /\ \A a \in DOMAIN line_map :
                /\ line_map[a][2] = a
                /\ \A b \in DOMAIN line_map :
                      a < b => EdgeBefore(line_map[a][1], line_map[b][1])
    /\ (PastSurfaces /\ pc # "KeyError") =>
          /\ Len(gmsh_loops) = Len(surfaces)
          /\ {LoopCell(k) : k \in DOMAIN gmsh_loops} = RealizableCells
          /\ \A a, b \in DOMAIN gmsh_loops :
                a < b => LexLess(LoopCell(a), LoopCell(b))
    /\ \A k \in DOMAIN gmsh_lines :
          gmsh_lines[k][1] \in DOMAIN gmsh_points /\ gmsh_lines[k][2] \in DOMAIN gmsh_points
    /\ \A k \in DOMAIN gmsh_loops :
          \A q \in DOMAIN gmsh_loops[k] : Abs(gmsh_loops[k][q]) \in DOMAIN gmsh_lines

C14_Witness ==
    /\ pc = "done"
    /\ Nx = 3 /\ Ny = 3
    /\ exclude = {<<0, 0>>}
    /\ Len(gmsh_points) = 8 /\ Len(gmsh_lines) = 10 /\ Len(gmsh_loops) = 3
    /\ LoopCell(1) = <<0, 1>> /\ LoopCell(3) = <<1, 1>>

----------------------------------------------------------------------------
\* the point_map keys generate_lines is about to look up
LineEndKeys == UNION {EdgeEnds(e) : e \in Range(LineKeys)}

\* the lines keys generate_surfaces is about to look up
SurfaceLineKeys == UNION {Range(CellLineKeys(c[1], c[2])) : c \in Range(CellKeys)}

\* the lines keys add_physical_groups is about to look up
GroupLineKeys ==
    Range(LeftKeys) \cup Range(RightKeys) \cup Range(BottomKeys) \cup Range(TopKeys)

\* C15: every point_map[(i, j)] and lines[(i1, j1, i2, j2)] lookup of the five
\* passes uses a key inserted earlier: no pass ever ends in a KeyError, and on
\* entry to each pass the keys it will look up are all present.
C15_NoInvalidReference ==
    /\ pc # "KeyError"
    /\ pc = "lines" => LineEndKeys \subseteq Keys(point_map)
    /\ pc = "transfinite" => Range(LineKeys) \subseteq Keys(line_map)
    /\ pc = "surfaces" => SurfaceLineKeys \subseteq Keys(line_map)
    /\ pc = "groups" => GroupLineKeys \subseteq Keys(line_map)

C15_Witness ==
    /\ pc = "done"
    /\ Nx = 3 /\ Ny = 3
    /\ exclude = {<<0, 0>>, <<2, 2>>}
    /\ Len(surfaces) = 2
    /\ Len(gmsh_transfinite) = Len(line_map)
    /\ Len(gmsh_physical) >= 5

----------------------------------------------------------------------------
(* Orientation of the curve loops, read from what the kernel was given *)

\* <<from, to>> point tags of a signed line tag
Oriented(t) ==
    IF t > 0 THEN gmsh_lines[t] ELSE <<gmsh_lines[-t][2], gmsh_lines[-t][1]>>

\* the point tags of the corners of cell c, counter-clockwise from (i, j)
CornerTags(c) ==
    << Get(point_map, c), Get(point_map, <<c[1] + 1, c[2]>>),
       Get(point_map, <<c[1] + 1, c[2] + 1>>), Get(point_map, <<c[1], c[2] + 1>>) >>

\* the loops that traverse line t forward, and reversed
ForwardLoops(t) == {k \in DOMAIN gmsh_loops : t \in Range(gmsh_loops[k])}
ReversedLoops(t) == {k \in DOMAIN gmsh_loops : -t \in Range(gmsh_loops[k])}

\* C16: every curve loop is a closed chain (i,j) -> (i+1,j) -> (i+1,j+1) ->
\* (i,j+1) -> (i,j) over the corners of its cell, each traversed edge ending
\* where the next starts; an edge used by two faces is forward in one and
\* reversed in the other, and no edge is used by more than two faces.
C16_ClosedConsistentLoops ==
    (PastSurfaces /\ pc # "KeyError") =>
        /\ \A k \in DOMAIN gmsh_loops :
              /\ Len(gmsh_loops[k]) = 4
              /\ \A q \in 1..4 :
                    /\ Oriented(gmsh_loops[k][q])[1] = CornerTags(LoopCell(k))[q]
                    /\ Oriented(gmsh_loops[k][q])[2] = CornerTags(LoopCell(k))[(q % 4) + 1]
                    /\ Oriented(gmsh_loops[k][q])[2] = Oriented(gmsh_loops[k][(q % 4) + 1])[1]
        /\ \A t \in DOMAIN gmsh_lines :
              /\ Cardinality(ForwardLoops(t)) <= 1
              /\ Cardinality(ReversedLoops(t)) <= 1
              /\ ForwardLoops(t) \cap ReversedLoops(t) = {}

C16_Witness ==
    /\ pc = "done"
    /\ Nx = 3 /\ Ny = 3 /\ exclude = {<<2, 2>>}
    /\ Len(gmsh_loops) = 3
    /\ \E t \in DOMAIN gmsh_lines :
          Cardinality(ForwardLoops(t)) = 1 /\ Cardinality(ReversedLoops(t)) = 1

----------------------------------------------------------------------------
StrictlyIncreasing(s) ==
    \A k \in 1..(Len(s) - 1) : RPositive(RSub(s[k + 1], s[k]))

\* C17: for Re > 0, yplus > 0, nelq >= 1 in either regime, the axes returned
\* by generate_data are strictly increasing: the two graded regions do not
\* overlap (2 * dyprog < ymax - ymin) and the constant region has positive
\* length.
C17_AxesIncreasing ==
    (PastData /\ Re > 0 /\ RPositive(yplus) /\ nelq >= 1) =>
        /\ StrictlyIncreasing(coord_x)
        /\ StrictlyIncreasing(coord_y)
        /\ RPositive(RSub(RSub(ymax, ymin), RMul(R(2), dyprog)))
        /\ RPositive(dycst)

====
